---- MODULE Spec2Model ----
(***************************************************************************)
(* A model of the treemap tree engine of src/src/tm_trees.py (class        *)
(* TMTree): the node objects with their fields, the constructor, the       *)
(* data-size accounting, the mutations (change_size, move, delete_self),   *)
(* the expand / collapse flags and the rectangle layout.                   *)
(*                                                                         *)
(* Node objects are the integers 1..MaxNodes, numbered in the order in     *)
(* which they are constructed.  Every field of the class is a function     *)
(* from node objects to values.  The methods are operators from a heap     *)
(* (a record holding all fields) to an outcome [h, ret, val]: the heap     *)
(* the call leaves behind, how the call ended ("ok", "raise", "hang") and  *)
(* the value it returned.                                                  *)
(***************************************************************************)
EXTENDS Integers, Sequences, FiniteSets, TLC

VARIABLES name, data_size, subtrees, parent, expanded, rect, class,
          used, deleted, last

vars == <<name, data_size, subtrees, parent, expanded, rect, class,
          used, deleted, last>>

(***************************************************************************)
(* Bounds of the model.                                                    *)
(***************************************************************************)
\* number of TMTree objects that may be constructed
MaxNodes == 4
\* largest data_size handed to the constructor
MaxInitSize == 1
\* a call is not made when it would leave a data_size beyond this, in
\* either direction
MaxSize == 3

Nodes == 1..MaxNodes

\* the rectangles handed to update_rectangles: a corner away from the
\* origin; wider than high, higher than wide, square, of negative height,
\* of negative width, of negative width and height, and empty
Rects == {<<1, 2, 5, 3>>, <<1, 2, 3, 5>>, <<1, 2, 3, 3>>, <<1, 2, 5, -3>>,
          <<1, 2, -3, 2>>, <<1, 2, -3, -5>>, <<0, 0, 0, 0>>}

\* Python's None as the value of _parent_tree
None == 0

\* Python's None as the value of _name (a value that is no string of Names)
NoName == "<None>"

\* the classes of the objects: TMTree and its two subclasses; NoClass for
\* an object that is not constructed yet
Classes == {"TMTree", "PaperTree", "FileSystemTree"}
NoClass == "<none>"

\* the names given to non-empty trees
Names == {"a"}

\* the names of the categories and the titles of the papers of the dataset
Categories == {"b", "c"}
Titles == {"t"}

\* the names of the files and folders of the file system
FileNames == {"a", "b"}

\* the factors handed to change_size, as <<numerator, denominator>>; the
\* denominators are powers of two, so that the IEEE-754 product
\* data_size * factor of the source is exact and equals the rational one
Factors == {<<-3, 2>>, <<-1, 2>>, <<0, 1>>, <<1, 2>>}

(***************************************************************************)
(* Sequences (Python lists of node objects).                               *)
(***************************************************************************)
InSeq(x, s) == \E i \in 1..Len(s) : s[i] = x

Count(x, s) == Cardinality({i \in 1..Len(s) : s[i] = x})

\* list.remove(x): drops the first occurrence of x (x is known to occur)
ListRemove(s, x) ==
    LET i == CHOOSE j \in 1..Len(s) :
                 s[j] = x /\ \A k \in 1..(j - 1) : s[k] # x
    IN  [k \in 1..(Len(s) - 1) |-> IF k < i THEN s[k] ELSE s[k + 1]]

\* the lists of distinct elements of S
ListsOf(S) ==
    {s \in UNION {[1..k -> S] : k \in 0..Cardinality(S)} :
        \A i, j \in 1..Len(s) : i # j => s[i] # s[j]}

(***************************************************************************)
(* The heap and the outcomes of calls.                                     *)
(***************************************************************************)
Heap == [name |-> name, data_size |-> data_size, subtrees |-> subtrees,
         parent |-> parent, expanded |-> expanded, rect |-> rect,
         class |-> class]

Ok(h, v) == [h |-> h, ret |-> "ok", val |-> v]
Raise(h) == [h |-> h, ret |-> "raise", val |-> None]
Hang(h) == [h |-> h, ret |-> "hang", val |-> None]

Store(h) ==
    /\ name' = h.name
    /\ data_size' = h.data_size
    /\ subtrees' = h.subtrees
    /\ parent' = h.parent
    /\ expanded' = h.expanded
    /\ rect' = h.rect
    /\ class' = h.class

\* the objects constructed so far
Live == 1..used

\* no call is in progress for ever
Running == last.ret # "hang"

(***************************************************************************)
(* TMTree._sum_size: the data_size of a tree with subtrees is recomputed   *)
(* bottom-up, in place; a tree without subtrees keeps its data_size.       *)
(***************************************************************************)
RECURSIVE _sum_size(_, _)
RECURSIVE _sum_size_loop(_, _, _, _)

\* the for loop of _sum_size over kids[i..], total accumulated so far
_sum_size_loop(h, kids, i, total) ==
    IF i > Len(kids) THEN [h |-> h, val |-> total]
    ELSE LET r == _sum_size(h, kids[i])
         IN  _sum_size_loop(r.h, kids, i + 1, total + r.val)

_sum_size(h, self) ==
    IF h.subtrees[self] = <<>> THEN [h |-> h, val |-> h.data_size[self]]
    ELSE LET r == _sum_size_loop(h, h.subtrees[self], 1, 0)
         IN  [h |-> [r.h EXCEPT !.data_size[self] = r.val], val |-> r.val]

(***************************************************************************)
(* TMTree.__init__                                                         *)
(***************************************************************************)
\* __init__ without the call of _sum_size
__init___no_sum(h, self, nm, kids, size) ==
    LET h1 == [h EXCEPT !.rect[self] = <<0, 0, 0, 0>>,
                        !.name[self] = nm,
                        !.subtrees[self] = kids,
                        !.parent[self] = None,
                        !.expanded[self] = FALSE,
                        !.data_size[self] = size]
    IN  [h1 EXCEPT !.parent =
            [m \in Nodes |-> IF InSeq(m, kids) THEN self ELSE @[m]]]

__init__(h, self, nm, kids, size) ==
    LET h1 == [h EXCEPT !.rect[self] = <<0, 0, 0, 0>>,
                        !.name[self] = nm,
                        !.subtrees[self] = kids,
                        !.parent[self] = None,
                        !.expanded[self] = FALSE,
                        !.data_size[self] = size]
        h2 == _sum_size(h1, self).h
    IN  [h2 EXCEPT !.parent =
            [m \in Nodes |-> IF InSeq(m, kids) THEN self ELSE @[m]]]

(***************************************************************************)
(* TMTree.update_data_sizes: as _sum_size, called on the root by the       *)
(* mutations.                                                              *)
(***************************************************************************)
\* update_data_sizes that recomputes nothing: it returns the data_size it
\* finds
update_data_sizes_stored(h, self) == [h |-> h, val |-> h.data_size[self]]

RECURSIVE update_data_sizes(_, _)
RECURSIVE update_data_sizes_loop(_, _, _, _)

\* the generator of update_data_sizes over kids[i..], summed so far
update_data_sizes_loop(h, kids, i, total) ==
    IF i > Len(kids) THEN [h |-> h, val |-> total]
    ELSE LET r == update_data_sizes(h, kids[i])
         IN  update_data_sizes_loop(r.h, kids, i + 1, total + r.val)

update_data_sizes(h, self) ==
    IF h.subtrees[self] = <<>> THEN [h |-> h, val |-> h.data_size[self]]
    ELSE LET r == update_data_sizes_loop(h, h.subtrees[self], 1, 0)
         IN  [h |-> [r.h EXCEPT !.data_size[self] = r.val], val |-> r.val]

(***************************************************************************)
(* The walk along _parent_tree to the object without parent.  The walk of  *)
(* a chain of references that closes on itself does not end: it visits     *)
(* more objects than there are.                                            *)
(***************************************************************************)
RECURSIVE WalkUp(_, _, _)

\* the object the walk from self ends at, or None when it does not end
WalkUp(h, self, steps) ==
    IF h.parent[self] = None THEN self
    ELSE IF steps >= MaxNodes THEN None
    ELSE WalkUp(h, h.parent[self], steps + 1)

\* _helper_root without the call of update_data_sizes on the root
_helper_root_no_update(h, self) ==
    IF WalkUp(h, self, 0) = None THEN Hang(h) ELSE Ok(h, None)

\* TMTree._helper_root: a while loop, so an endless walk hangs
_helper_root(h, self) ==
    LET root == WalkUp(h, self, 0)
    IN  IF root = None THEN Hang(h)
        ELSE Ok(update_data_sizes(h, root).h, None)

\* TMTree._get_root: a recursion, so an endless walk raises RecursionError
_get_root(h, self) ==
    LET root == WalkUp(h, self, 0)
    IN  IF root = None THEN Raise(h) ELSE Ok(h, root)

(***************************************************************************)
(* TMTree.move                                                             *)
(***************************************************************************)
\* the first half of the body of move: self leaves the _subtrees of its
\* parent p, whose flag and data_size are adjusted, and the sizes are
\* recomputed from the root
move_detach(h, self) ==
    LET p == h.parent[self]
        h1 == [h EXCEPT !.subtrees[p] = ListRemove(@, self)]
        h2 == IF h1.subtrees[p] = <<>>
              THEN [h1 EXCEPT !.expanded[p] = FALSE] ELSE h1
        h3 == [h2 EXCEPT !.data_size[p] = @ - h2.data_size[self]]
    IN  _helper_root(h3, self)

\* move_attach without the assignment to self._parent_tree
move_attach_no_parent(h, self, destination) ==
    LET h6 == [h EXCEPT !.subtrees[destination] = Append(@, self)]
        h7 == [h6 EXCEPT !.data_size[destination] = @ + h6.data_size[self]]
    IN  _helper_root(h7, destination)

\* move_attach putting self first in the list of destination
move_attach_first(h, self, destination) ==
    LET h5 == [h EXCEPT !.parent[self] = destination]
        h6 == [h5 EXCEPT !.subtrees[destination] = <<self>> \o @]
        h7 == [h6 EXCEPT !.data_size[destination] = @ + h6.data_size[self]]
    IN  _helper_root(h7, destination)

\* the second half of the body of move: self becomes the last subtree of
\* destination
move_attach(h, self, destination) ==
    LET h5 == [h EXCEPT !.parent[self] = destination]
        h6 == [h5 EXCEPT !.subtrees[destination] = Append(@, self)]
        h7 == [h6 EXCEPT !.data_size[destination] = @ + h6.data_size[self]]
    IN  _helper_root(h7, destination)

\* move without the test that destination has subtrees
move_no_destination_test(h, self, destination) ==
    IF self = destination \/ h.parent[self] = destination THEN Ok(h, None)
    ELSE IF h.subtrees[self] = <<>>
    THEN IF h.parent[self] = None THEN Raise(h)
         ELSE IF ~InSeq(self, h.subtrees[h.parent[self]]) THEN Raise(h)
         ELSE LET r == move_detach(h, self)
              IN  IF r.ret # "ok" THEN r
                  ELSE move_attach(r.h, self, destination)
    ELSE Ok(h, None)

move(h, self, destination) ==
    IF self = destination \/ h.parent[self] = destination THEN Ok(h, None)
    ELSE IF h.subtrees[self] = <<>> /\ h.subtrees[destination] # <<>>
    THEN \* None has no attribute _subtrees: AttributeError
         IF h.parent[self] = None THEN Raise(h)
         \* list.remove(x) of an x that is not in the list: ValueError
         ELSE IF ~InSeq(self, h.subtrees[h.parent[self]]) THEN Raise(h)
         ELSE LET r == move_detach(h, self)
              IN  IF r.ret # "ok" THEN r
                  ELSE move_attach(r.h, self, destination)
    ELSE Ok(h, None)

(***************************************************************************)
(* TMTree.change_size and its helpers.  A factor is <<num, den>> with      *)
(* den > 0, standing for the float num / den.                              *)
(***************************************************************************)
\* math.floor(a / b) and math.ceil(a / b) for b > 0
Floor(a, b) == a \div b
Ceil(a, b) == -((-a) \div b)

Max(a, b) == IF a >= b THEN a ELSE b

_is_leaf(h, self) == h.subtrees[self] = <<>>

_increase_size(h, self, factor) ==
    [h EXCEPT !.data_size[self] = @ + Ceil(@ * factor[1], factor[2])]

_decrease_size(h, self, factor) ==
    IF h.data_size[self] = 0
    THEN [h EXCEPT !.data_size[self] = @ + 1]
    ELSE LET change == Floor(h.data_size[self] * factor[1], factor[2])
         IN  [h EXCEPT !.data_size[self] = Max(1, @ + change)]

_apply_size_change(h, self, factor) ==
    IF factor[1] > 0 THEN _increase_size(h, self, factor)
    ELSE _decrease_size(h, self, factor)

\* change_size without the test for a leaf
change_size_no_leaf_test(h, self, factor) ==
    _helper_root(_apply_size_change(h, self, factor), self)

change_size(h, self, factor) ==
    IF ~_is_leaf(h, self) THEN Ok(h, None)
    ELSE _helper_root(_apply_size_change(h, self, factor), self)

(***************************************************************************)
(* TMTree.delete_self and its helper.                                      *)
(***************************************************************************)
RECURSIVE SumOf(_, _, _)

\* sum(subtree.data_size for subtree in kids[i..])
SumOf(h, kids, i) ==
    IF i > Len(kids) THEN 0
    ELSE h.data_size[kids[i]] + SumOf(h, kids, i + 1)

\* _recalculate_data_sizes that assigns nothing
_recalculate_data_sizes_skip(h, self, depth) == Ok(h, None)

RECURSIVE _recalculate_data_sizes(_, _, _)

\* a recursion up the _parent_tree references: an endless one raises
\* RecursionError
_recalculate_data_sizes(h, self, depth) ==
    LET h1 == [h EXCEPT !.data_size[self] = SumOf(h, h.subtrees[self], 1)]
    IN  IF h1.parent[self] = None THEN Ok(h1, None)
        ELSE IF depth >= MaxNodes THEN Raise(h1)
        ELSE _recalculate_data_sizes(h1, h1.parent[self], depth + 1)

delete_self(h, self) ==
    LET p == h.parent[self] IN
    IF p # None
    THEN \* list.remove(x) of an x that is not in the list: ValueError
         IF ~InSeq(self, h.subtrees[p]) THEN Raise(h)
         ELSE LET h1 == [h EXCEPT !.subtrees[p] = ListRemove(@, self)]
                  h2 == IF h1.subtrees[p] = <<>>
                        THEN [h1 EXCEPT !.expanded[p] = FALSE] ELSE h1
                  r3 == _recalculate_data_sizes(h2, p, 0)
              IN  IF r3.ret # "ok" THEN r3
                  ELSE LET h4 == update_data_sizes(r3.h, p).h
                           h5 == [h4 EXCEPT !.data_size[self] = 0]
                           r6 == _helper_root(h5, self)
                       IN  IF r6.ret # "ok" THEN r6 ELSE Ok(r6.h, TRUE)
    ELSE Ok(h, FALSE)

(***************************************************************************)
(* TMTree.expand, expand_all, collapse, collapse_all.                      *)
(***************************************************************************)
\* expand without the test for a leaf
expand_no_leaf_test(h, self) == [h EXCEPT !.expanded[self] = TRUE]

\* expand that also sets the flag of the subtrees
expand_and_subtrees(h, self) ==
    IF h.subtrees[self] = <<>> THEN h
    ELSE [h EXCEPT !.expanded =
             [m \in Nodes |->
                 IF m = self \/ InSeq(m, h.subtrees[self]) THEN TRUE
                 ELSE @[m]]]

\* expand that also withdraws the rectangle of the tree
expand_clear_rect(h, self) ==
    IF h.subtrees[self] = <<>> THEN h
    ELSE [h EXCEPT !.expanded[self] = TRUE, !.rect[self] = <<0, 0, 0, 0>>]

expand(h, self) ==
    IF h.subtrees[self] = <<>> THEN h
    ELSE [h EXCEPT !.expanded[self] = TRUE]

\* expand_all that does not go into the subtrees
expand_all_no_recursion(h, self) ==
    IF h.subtrees[self] = <<>> THEN h
    ELSE [h EXCEPT !.expanded[self] = TRUE]

RECURSIVE expand_all(_, _)
RECURSIVE expand_all_loop(_, _, _)

expand_all_loop(h, kids, i) ==
    IF i > Len(kids) THEN h
    ELSE expand_all_loop(expand_all(h, kids[i]), kids, i + 1)

expand_all(h, self) ==
    IF h.subtrees[self] = <<>> THEN h
    ELSE expand_all_loop([h EXCEPT !.expanded[self] = TRUE],
                         h.subtrees[self], 1)

RECURSIVE _collapse_parent(_, _)
RECURSIVE _collapse_parent_loop(_, _, _)

_collapse_parent_loop(h, kids, i) ==
    IF i > Len(kids) THEN h
    ELSE _collapse_parent_loop(_collapse_parent(h, kids[i]), kids, i + 1)

_collapse_parent(h, self) ==
    LET h1 == [h EXCEPT !.expanded[self] = FALSE]
    IN  IF h1.subtrees[self] = <<>> THEN h1
        ELSE _collapse_parent_loop(h1, h1.subtrees[self], 1)

\* collapse without the loop over the subtrees of the parent
collapse_no_siblings(h, self) ==
    LET p == h.parent[self] IN
    IF p # None
    THEN [h EXCEPT !.expanded[p] = FALSE, !.expanded[self] = FALSE]
    ELSE h

collapse(h, self) ==
    LET p == h.parent[self] IN
    IF p # None
    THEN LET h1 == [h EXCEPT !.expanded[p] = FALSE]
             h2 == [h1 EXCEPT !.expanded[self] = FALSE]
         IN  _collapse_parent_loop(h2, h2.subtrees[p], 1)
    ELSE h

\* collapse_all that does not go to the root first
collapse_all_from_self(h, self) == Ok(_collapse_parent(h, self), None)

collapse_all(h, self) ==
    LET r == _get_root(h, self)
    IN  IF r.ret # "ok" THEN r
        ELSE Ok(_collapse_parent(r.h, r.val), None)

(***************************************************************************)
(* TMTree.update_rectangles and its helpers.  A rectangle is               *)
(* <<x, y, width, height>>.  The float subtree.data_size / total_size is   *)
(* kept as the pair of its operands; int(total_dimension * proportion)     *)
(* truncates towards zero.  For the small integers of this model the       *)
(* IEEE-754 result and the exact one truncate to the same integer.         *)
(***************************************************************************)
is_empty(h, self) == h.name[self] = NoName

\* int(a / b) for b > 0: Python's int() drops the fractional part
Trunc(a, b) == IF a >= 0 THEN a \div b ELSE -((-a) \div b)

_calculate_dimension(proportion, total_dimension, offset, is_last_subtree) ==
    IF ~is_last_subtree
    THEN Trunc(total_dimension * proportion[1], proportion[2])
    ELSE total_dimension - offset

RECURSIVE update_rectangles(_, _, _)
RECURSIVE _handle_base_cases_loop(_, _, _, _)
RECURSIVE _distribute_space_loop(_, _, _, _, _)

\* for subtree in self._subtrees: subtree.update_rectangles(rect)
_handle_base_cases_loop(h, kids, i, r) ==
    IF i > Len(kids) THEN h
    ELSE _handle_base_cases_loop(update_rectangles(h, kids[i], r),
                                 kids, i + 1, r)

_handle_base_cases(h, self, r) ==
    IF is_empty(h, self) /\ h.data_size[self] > 0
    THEN [h EXCEPT !.rect[self] = r]
    ELSE IF h.data_size[self] = 0
    THEN _handle_base_cases_loop([h EXCEPT !.rect[self] = <<0, 0, 0, 0>>],
                                 h.subtrees[self], 1, r)
    ELSE h

\* the for loop of _distribute_space_subtrees from the i-th subtree on
_distribute_space_loop(h, self, r, i, offset) ==
    LET kids == h.subtrees[self] IN
    IF i > Len(kids) THEN h
    ELSE LET subtree == kids[i]
             proportion == <<h.data_size[subtree], h.data_size[self]>>
             is_last == (i = Len(kids))
             current ==
                 IF r[3] > r[4]
                 THEN _calculate_dimension(proportion, r[3], offset, is_last)
                 ELSE _calculate_dimension(proportion, r[4], offset, is_last)
             sub_rect ==
                 IF r[3] > r[4]
                 THEN <<r[1] + offset, r[2], current, r[4]>>
                 ELSE <<r[1], r[2] + offset, r[3], current>>
             h1 == [h EXCEPT !.rect[subtree] = sub_rect]
             h2 == update_rectangles(h1, subtree, sub_rect)
         IN  _distribute_space_loop(h2, self, r, i + 1, offset + current)

_distribute_space_subtrees(h, self, r) ==
    IF ~is_empty(h, self) /\ h.data_size[self] > 0
    THEN _distribute_space_loop([h EXCEPT !.rect[self] = r], self, r, 1, 0)
    ELSE h

update_rectangles(h, self, r) ==
    _distribute_space_subtrees(_handle_base_cases(h, self, r), self, r)

(***************************************************************************)
(* The queries on a laid-out tree: TMTree.get_rectangles and               *)
(* TMTree.get_tree_at_position.  Neither assigns to a field.               *)
(***************************************************************************)
\* self._colour: __init__ draws it at random, once for each object, and
\* nothing assigns to it afterwards; the colour of an object is modelled by
\* the object itself
_colour(self) == self

RECURSIVE get_rectangles(_, _)
RECURSIVE get_rectangles_loop(_, _, _)

\* for tree in self._subtrees: rects.extend(tree.get_rectangles()), from
\* the i-th subtree on
get_rectangles_loop(h, kids, i) ==
    IF i > Len(kids) THEN <<>>
    ELSE get_rectangles(h, kids[i]) \o get_rectangles_loop(h, kids, i + 1)

get_rectangles(h, self) ==
    IF is_empty(h, self) THEN <<>>
    ELSE IF h.expanded[self]
    THEN IF is_empty(h, self)
            \/ (h.data_size[self] = 0 /\ h.subtrees[self] = <<>>)
         THEN <<>>
         ELSE IF h.subtrees[self] = <<>>
         THEN << <<h.rect[self], _colour(self)>> >>
         ELSE get_rectangles_loop(h, h.subtrees[self], 1)
    ELSE IF h.data_size[self] = 0 /\ h.subtrees[self] = <<>>
    THEN <<>>
    ELSE << <<h.rect[self], _colour(self)>> >>

\* _is_pos_inside_rect with both bounds exclusive
_is_pos_inside_rect_strict(h, self, pos) ==
    LET x == pos[1]
        y == pos[2]
        lower_x == h.rect[self][1]
        lower_y == h.rect[self][2]
        upper_x == h.rect[self][3]
        upper_y == h.rect[self][4]
    IN  /\ lower_x < x /\ x < lower_x + upper_x
        /\ lower_y < y /\ y < lower_y + upper_y

_is_pos_inside_rect(h, self, pos) ==
    LET x == pos[1]
        y == pos[2]
        lower_x == h.rect[self][1]
        lower_y == h.rect[self][2]
        upper_x == h.rect[self][3]
        upper_y == h.rect[self][4]
    IN  /\ lower_x <= x /\ x <= lower_x + upper_x
        /\ lower_y <= y /\ y <= lower_y + upper_y

_is_leaf_or_not_expanded(h, self) ==
    h.subtrees[self] = <<>> \/ ~h.expanded[self]

RECURSIVE get_tree_at_position(_, _, _)
RECURSIVE _search_subtrees_loop(_, _, _, _)
RECURSIVE _search_subtrees_last(_, _, _, _)

\* the for loop of _search_subtrees_for_pos from the i-th subtree on: the
\* first result that is not None is returned
_search_subtrees_loop(h, kids, i, pos) ==
    IF i > Len(kids) THEN None
    ELSE LET pos_tree == get_tree_at_position(h, kids[i], pos)
         IN  IF pos_tree # None THEN pos_tree
             ELSE _search_subtrees_loop(h, kids, i + 1, pos)

\* the loop walked from the last subtree down to the first: the last result
\* that is not None is returned
_search_subtrees_last(h, kids, i, pos) ==
    IF i < 1 THEN None
    ELSE LET pos_tree == get_tree_at_position(h, kids[i], pos)
         IN  IF pos_tree # None THEN pos_tree
             ELSE _search_subtrees_last(h, kids, i - 1, pos)

\* _search_subtrees_for_pos returning the last match
_search_subtrees_for_pos_last(h, self, pos) ==
    _search_subtrees_last(h, h.subtrees[self], Len(h.subtrees[self]), pos)

_search_subtrees_for_pos(h, self, pos) ==
    _search_subtrees_loop(h, h.subtrees[self], 1, pos)

get_tree_at_position(h, self, pos) ==
    IF _is_pos_inside_rect(h, self, pos)
    THEN IF _is_leaf_or_not_expanded(h, self)
         THEN self
         ELSE _search_subtrees_for_pos(h, self, pos)
    ELSE None

(***************************************************************************)
(* The string representation: get_path_string, get_separator and           *)
(* get_suffix.  A Python string is a sequence of pieces (names, separators *)
(* and the pieces of a suffix), and + is the concatenation of sequences.   *)
(* TMTree leaves get_separator and get_suffix to its subclasses PaperTree  *)
(* (src/src/papers.py) and FileSystemTree.                                 *)
(***************************************************************************)
\* os.sep
os_sep == "/"

\* str(self._name) as a string of one piece; the name None is no string
Str(nm) == <<nm>>

get_separator(h, self) ==
    IF h.class[self] = "PaperTree" THEN Ok(h, <<" : ">>)
    ELSE IF h.class[self] = "FileSystemTree" THEN Ok(h, <<os_sep>>)
    ELSE [h |-> h, ret |-> "raise", val |-> <<>>]

\* convert_size of FileSystemTree.get_suffix for a data_size below 1024:
\* the value with two decimals and the unit B
convert_size(size) == <<ToString(size), ".00", "B">>

get_suffix(h, self) ==
    IF h.class[self] = "PaperTree"
    THEN Ok(h, <<" ", ToString(h.data_size[self]), " Citations">>)
    ELSE IF h.class[self] = "FileSystemTree"
    THEN IF Len(h.subtrees[self]) = 0
         THEN Ok(h, <<" (", "file", ", ">> \o convert_size(h.data_size[self])
                    \o <<")">>)
         ELSE Ok(h, <<" (", "folder", ", ",
                      ToString(Len(h.subtrees[self])), " items", ", ">>
                    \o convert_size(h.data_size[self]) \o <<")">>)
    ELSE [h |-> h, ret |-> "raise", val |-> <<>>]

RECURSIVE get_path_string_walk(_, _, _)
RECURSIVE get_path_string_reversed_walk(_, _, _)

\* get_path_string with the name of self put before the path of the parent
get_path_string_reversed_walk(h, self, steps) ==
    IF h.parent[self] = None THEN Ok(h, Str(h.name[self]))
    ELSE IF steps >= MaxNodes THEN [h |-> h, ret |-> "raise", val |-> <<>>]
    ELSE LET up == get_path_string_reversed_walk(h, h.parent[self], steps + 1)
             sep == get_separator(h, self)
         IN  IF up.ret # "ok" \/ sep.ret # "ok"
                \/ up.val = Str(NoName) \/ h.name[self] = NoName
             THEN [h |-> h, ret |-> "raise", val |-> <<>>]
             ELSE Ok(h, Str(h.name[self]) \o sep.val \o up.val)

get_path_string_reversed(h, self) == get_path_string_reversed_walk(h, self, 0)

\* the recursion of get_path_string: a chain of parents that closes on
\* itself raises RecursionError; None + str and str + None raise TypeError
get_path_string_walk(h, self, steps) ==
    IF h.parent[self] = None THEN Ok(h, Str(h.name[self]))
    ELSE IF steps >= MaxNodes THEN [h |-> h, ret |-> "raise", val |-> <<>>]
    ELSE LET up == get_path_string_walk(h, h.parent[self], steps + 1)
             sep == get_separator(h, self)
         IN  IF up.ret # "ok" \/ sep.ret # "ok"
                \/ up.val = Str(NoName) \/ h.name[self] = NoName
             THEN [h |-> h, ret |-> "raise", val |-> <<>>]
             ELSE Ok(h, up.val \o sep.val \o Str(h.name[self]))

get_path_string(h, self) == get_path_string_walk(h, self, 0)

(***************************************************************************)
(* The tree builders: PaperTree.__init__ with _build_tree_from_dict        *)
(* (src/src/papers.py) and FileSystemTree.__init__.  A builder constructs  *)
(* several objects in one call; u counts the objects constructed so far,   *)
(* and an outcome carries the new count as well.                           *)
(*                                                                         *)
(* The nested dictionary of _load_papers_to_dict is a sequence of entries  *)
(* in insertion order, [key, list, val]: under the key 'papers' the list   *)
(* of the papers of a category, each [title, citations] (list = TRUE), and *)
(* under any other key the dictionary of a category (list = FALSE).  A     *)
(* row whose category is called 'papers' puts a dictionary under the key   *)
(* 'papers'.                                                               *)
(*                                                                         *)
(* The file system is a tree of entries [name, isdir, size, entries]:      *)
(* os.path.basename, os.path.isdir, os.path.getsize and os.listdir of a    *)
(* path.                                                                   *)
(***************************************************************************)
\* a constructor call of class c that ends in TMTree.__init__
New(h, u, c, nm, kids, size) ==
    [h |-> __init__([h EXCEPT !.class[u + 1] = c], u + 1, nm, kids, size),
     used |-> u + 1, ret |-> "ok", val |-> u + 1]

\* PaperTree(name, subtrees, citations=citations), all_papers False
PaperTree(h, u, nm, kids, citations) ==
    New(h, u, "PaperTree", nm, kids, citations)

RECURSIVE PaperLeaves(_, _, _, _)
RECURSIVE PaperLeaves_no_citations(_, _, _, _)

\* PaperLeaves that leaves citations at its default, 0
PaperLeaves_no_citations(h, u, papers, i) ==
    IF i > Len(papers) THEN [h |-> h, used |-> u, ret |-> "ok", val |-> <<>>]
    ELSE LET leaf == PaperTree(h, u, papers[i].title, <<>>, 0)
             rest == PaperLeaves_no_citations(leaf.h, leaf.used, papers,
                                              i + 1)
         IN  [rest EXCEPT !.val = <<leaf.val>> \o @]

\* [PaperTree(name=paper['title'], subtrees=[], ...,
\*            citations=paper['citations']) for paper in papers], from the
\* i-th paper on; val is the list of the objects
PaperLeaves(h, u, papers, i) ==
    IF i > Len(papers) THEN [h |-> h, used |-> u, ret |-> "ok", val |-> <<>>]
    ELSE LET leaf == PaperTree(h, u, papers[i].title, <<>>,
                               papers[i].citations)
             rest == PaperLeaves(leaf.h, leaf.used, papers, i + 1)
         IN  [rest EXCEPT !.val = <<leaf.val>> \o @]

RECURSIVE SumDataSize(_, _, _)

\* sum(subtree.data_size for subtree in category_tree)
SumDataSize(h, kids, i) ==
    IF i > Len(kids) THEN 0
    ELSE h.data_size[kids[i]] + SumDataSize(h, kids, i + 1)

RECURSIVE _build_tree_from_dict(_, _, _)
RECURSIVE _build_tree_from_dict_loop(_, _, _, _)

\* for category, contents in data.items(), from the i-th item on; iterating
\* over a dictionary where a list of papers is expected yields its keys,
\* and paper['title'] on a key raises TypeError
_build_tree_from_dict_loop(h, u, data, i) ==
    IF i > Len(data) THEN [h |-> h, used |-> u, ret |-> "ok", val |-> <<>>]
    ELSE LET first ==
                 IF data[i].key = "papers"
                 THEN IF data[i].list
                      THEN PaperLeaves(h, u, data[i].val, 1)
                      ELSE [h |-> h, used |-> u, ret |-> "raise",
                            val |-> <<>>]
                 ELSE LET category_tree ==
                              _build_tree_from_dict(h, u, data[i].val)
                          citations ==
                              SumDataSize(category_tree.h,
                                          category_tree.val, 1)
                          node == PaperTree(category_tree.h,
                                            category_tree.used, data[i].key,
                                            category_tree.val, citations)
                      IN  IF category_tree.ret # "ok" THEN category_tree
                          ELSE [node EXCEPT !.val = <<node.val>>]
         IN  IF first.ret # "ok" THEN first
             ELSE LET rest == _build_tree_from_dict_loop(first.h, first.used,
                                                         data, i + 1)
                  IN  IF rest.ret # "ok" THEN rest
                      ELSE [rest EXCEPT !.val = first.val \o @]

_build_tree_from_dict(h, u, data) ==
    IF Len(data) = 1 /\ data[1].key = "papers"
    THEN IF data[1].list
         THEN PaperLeaves(h, u, data[1].val, 1)
         ELSE [h |-> h, used |-> u, ret |-> "raise", val |-> <<>>]
    ELSE _build_tree_from_dict_loop(h, u, data, 1)

\* PaperTree(name, subtrees, citations=citations, all_papers=True): data is
\* what _load_papers_to_dict returns; the subtrees passed are not used
PaperTree_all_papers(h, u, nm, citations, data) ==
    LET built == _build_tree_from_dict(h, u, data)
    IN  IF built.ret # "ok" THEN built
        ELSE PaperTree(built.h, built.used, nm, built.val, citations)

RECURSIVE FileSystemTree(_, _, _)
RECURSIVE FileSystemTree_loop(_, _, _, _)

\* for filename in os.listdir(path): subtrees.append(FileSystemTree(...)),
\* from the i-th entry on
FileSystemTree_loop(h, u, entries, i) ==
    IF i > Len(entries) THEN [h |-> h, used |-> u, ret |-> "ok", val |-> <<>>]
    ELSE LET subtree == FileSystemTree(h, u, entries[i])
             rest == FileSystemTree_loop(subtree.h, subtree.used, entries,
                                         i + 1)
         IN  [rest EXCEPT !.val = <<subtree.val>> \o @]

\* FileSystemTree(path), path being the entry of the file system
FileSystemTree(h, u, path) ==
    IF path.isdir
    THEN LET subtrees_ == FileSystemTree_loop(h, u, path.entries, 1)
         IN  New(subtrees_.h, subtrees_.used, "FileSystemTree", path.name,
                 subtrees_.val, 0)
    ELSE LET file == New(h, u, "FileSystemTree", path.name, <<>>, 0)
         IN  [file EXCEPT !.h.data_size[file.val] = path.size]

(***************************************************************************)
(* The record of the last call: the method, the object it was called on,   *)
(* its argument, how it ended, what it returned (the list rects when the   *)
(* method is get_rectangles, the string text when it is get_path_string    *)
(* or get_suffix, the value val otherwise), and the data_size              *)
(* w0, parent p0 and the parent's flag e0 the object had when it was       *)
(* called.                                                                 *)
(***************************************************************************)
Call(op, self, arg, r) ==
    [op |-> op, self |-> self, arg |-> arg, ret |-> r.ret, val |-> r.val,
     rects |-> <<>>, text |-> <<>>, w0 |-> data_size[self], p0 |-> parent[self],
     e0 |-> IF parent[self] = None THEN FALSE ELSE expanded[parent[self]]]

NoCall ==
    [op |-> "none", self |-> None, arg |-> None, ret |-> "ok", val |-> None,
     rects |-> <<>>, text |-> <<>>, w0 |-> 0, p0 |-> None, e0 |-> FALSE]

Init ==
    /\ name = [n \in Nodes |-> NoName]
    /\ data_size = [n \in Nodes |-> 0]
    /\ subtrees = [n \in Nodes |-> <<>>]
    /\ parent = [n \in Nodes |-> None]
    /\ expanded = [n \in Nodes |-> FALSE]
    /\ rect = [n \in Nodes |-> <<0, 0, 0, 0>>]
    /\ class = [n \in Nodes |-> NoClass]
    /\ used = 0
    /\ deleted = {}
    /\ last = NoCall

\* the constructed objects that no tree holds as a subtree
Roots == {n \in Live : parent[n] = None}

\* TMTree(nm, kids, size): a new object; the caller passes trees it owns,
\* each at most once
Construct(nm, kids, size) ==
    /\ Running
    /\ used < MaxNodes
    /\ LET self == used + 1
       IN  /\ Store(__init__([Heap EXCEPT !.class[self] = "TMTree"],
                          self, nm, kids, size))
           /\ used' = self
           /\ last' = [NoCall EXCEPT !.op = "__init__", !.self = self,
                                     !.arg = <<nm, kids, size>>]
    /\ UNCHANGED deleted

ConstructAny ==
    \E nm \in Names \cup {NoName}, kids \in ListsOf(Roots), size \in 0..MaxInitSize :
        Construct(nm, kids, size)

\* the constructor called with a name, as the tree builders call it
ConstructNamed ==
    \E nm \in Names, kids \in ListsOf(Roots), size \in 0..MaxInitSize :
        Construct(nm, kids, size)

\* a method call on a constructed object: r is its outcome
Method(op, self, arg, r) ==
    /\ Running
    /\ \A n \in Nodes : r.h.data_size[n] \in (-MaxSize)..MaxSize
    /\ Store(r.h)
    /\ last' = Call(op, self, arg, r)
    /\ UNCHANGED used

ChangeSize(self, factor) ==
    /\ Method("change_size", self, factor, change_size(Heap, self, factor))
    /\ UNCHANGED deleted

Move(self, destination) ==
    /\ Method("move", self, destination, move(Heap, self, destination))
    /\ UNCHANGED deleted

DeleteSelf(self) ==
    LET r == delete_self(Heap, self)
    IN  /\ Method("delete_self", self, None, r)
        /\ deleted' = IF r.ret = "ok" /\ r.val = TRUE
                      THEN deleted \cup {self} ELSE deleted

Expand(self) ==
    /\ Method("expand", self, None, Ok(expand(Heap, self), None))
    /\ UNCHANGED deleted

ExpandAll(self) ==
    /\ Method("expand_all", self, None, Ok(expand_all(Heap, self), None))
    /\ UNCHANGED deleted

Collapse(self) ==
    /\ Method("collapse", self, None, Ok(collapse(Heap, self), None))
    /\ UNCHANGED deleted

CollapseAll(self) ==
    /\ Method("collapse_all", self, None, collapse_all(Heap, self))
    /\ UNCHANGED deleted

UpdateRectangles(self, r) ==
    /\ Method("update_rectangles", self, r,
              Ok(update_rectangles(Heap, self, r), None))
    /\ UNCHANGED deleted

UpdateDataSizes(self) ==
    LET r == update_data_sizes(Heap, self)
    IN  /\ Method("update_data_sizes", self, None, Ok(r.h, r.val))
        /\ UNCHANGED deleted

GetRectangles(self) ==
    /\ Running
    /\ last' = [Call("get_rectangles", self, None, Ok(Heap, None))
                    EXCEPT !.rects = get_rectangles(Heap, self)]
    /\ UNCHANGED <<name, data_size, subtrees, parent, expanded, rect, class,
                   used, deleted>>

GetTreeAtPosition(self, pos) ==
    /\ Method("get_tree_at_position", self, pos,
              Ok(Heap, get_tree_at_position(Heap, self, pos)))
    /\ UNCHANGED deleted

\* a query that returns a string
TextQuery(op, self, r) ==
    /\ Running
    /\ last' = [Call(op, self, None, [r EXCEPT !.val = None])
                    EXCEPT !.text = r.val]
    /\ UNCHANGED <<name, data_size, subtrees, parent, expanded, rect, class,
                   used, deleted>>

GetPathString(self) ==
    TextQuery("get_path_string", self, get_path_string(Heap, self))

GetSuffix(self) ==
    TextQuery("get_suffix", self, get_suffix(Heap, self))

\* construction alone
NextC == ConstructAny

SpecC == Init /\ [][NextC]_vars

\* construction and layout: a builder constructs the trees bottom-up, then
\* the layout runs on the root the builder returns, the object constructed
\* last
BuildAny ==
    /\ last.op # "update_rectangles"
    /\ ConstructAny

LayoutRoot ==
    /\ used >= 1
    /\ \E r \in Rects : UpdateRectangles(used, r)

NextL ==
    \/ BuildAny
    \/ LayoutRoot

SpecL == Init /\ [][NextL]_vars

\* the caller takes the outcome of the call that has finished; a call that
\* hangs never returns
Return ==
    /\ last.op # NoCall.op
    /\ Running
    /\ last' = NoCall
    /\ UNCHANGED <<name, data_size, subtrees, parent, expanded, rect, class,
                   used, deleted>>

\* no call is waiting for its caller
Idle == last.op = NoCall.op

\* the trees and their sizes: construction, change_size, move, delete_self,
\* one call at a time
NextW ==
    \/ Idle /\ ConstructNamed
    \/ Idle /\ \E self \in Live, factor \in Factors : ChangeSize(self, factor)
    \/ Idle /\ \E self \in Live, destination \in Live : Move(self, destination)
    \/ Idle /\ \E self \in Live : DeleteSelf(self)
    \/ Return

SpecW == Init /\ [][NextW]_vars

\* the trees and their flags: construction, expand, collapse, move,
\* delete_self
NextV ==
    \/ Idle /\ ConstructNamed
    \/ Idle /\ \E self \in Live : Expand(self)
    \/ Idle /\ \E self \in Live : ExpandAll(self)
    \/ Idle /\ \E self \in Live : Collapse(self)
    \/ Idle /\ \E self \in Live : CollapseAll(self)
    \/ Idle /\ \E self \in Live, destination \in Live : Move(self, destination)
    \/ Idle /\ \E self \in Live : DeleteSelf(self)
    \/ Return

SpecV == Init /\ [][NextV]_vars

\* the rectangles of the specification with layout and delete_self: wider
\* than high, and higher than wide
RectsM == {<<1, 2, 5, 3>>, <<1, 2, 3, 5>>}

\* layout between edits: construction, update_rectangles on any object
\* without parent, delete_self, one call at a time
NextM ==
    \/ Idle /\ ConstructAny
    \/ Idle /\ \E self \in Roots, r \in RectsM : UpdateRectangles(self, r)
    \/ Idle /\ \E self \in Live : DeleteSelf(self)
    \/ Return

SpecM == Init /\ [][NextM]_vars

\* resynchronisation after edits: construction, change_size, move,
\* delete_self and update_data_sizes on any object, one call at a time
NextU ==
    \/ Idle /\ ConstructNamed
    \/ Idle /\ \E self \in Live, factor \in Factors : ChangeSize(self, factor)
    \/ Idle /\ \E self \in Live, destination \in Live : Move(self, destination)
    \/ Idle /\ \E self \in Live : DeleteSelf(self)
    \/ Idle /\ \E self \in Live : UpdateDataSizes(self)
    \/ Return

SpecU == Init /\ [][NextU]_vars

\* the positions handed to get_tree_at_position: the origin, a position
\* inside both rectangles of RectsM that lies on the edge two subtrees of
\* equal data_size share, and a position outside both rectangles
Positions == {<<0, 0>>, <<3, 4>>, <<7, 8>>}

\* the queries on the displayed tree: construction, layout on any object
\* without parent, expand and collapse, and the two queries on any object
NextQ ==
    \/ Idle /\ ConstructAny
    \/ Idle /\ \E self \in Roots, r \in RectsM : UpdateRectangles(self, r)
    \/ Idle /\ \E self \in Live : Expand(self)
    \/ Idle /\ \E self \in Live : Collapse(self)
    \/ Idle /\ \E self \in Live : GetRectangles(self)
    \/ Idle /\ \E self \in Live, pos \in Positions :
                  GetTreeAtPosition(self, pos)
    \/ Return

SpecQ == Init /\ [][NextQ]_vars

(***************************************************************************)
(* The inputs of the builders, by the number of objects they lead to.      *)
(***************************************************************************)
RECURSIVE SizeOfDict(_)
RECURSIVE SizeOfDictFrom(_, _)

\* the number of objects _build_tree_from_dict constructs for data
SizeOfDict(data) == SizeOfDictFrom(data, 1)

SizeOfDictFrom(data, i) ==
    IF i > Len(data) THEN 0
    ELSE (IF data[i].list THEN Len(data[i].val)
          ELSE IF data[i].key = "papers" THEN SizeOfDict(data[i].val)
          ELSE 1 + SizeOfDict(data[i].val))
         + SizeOfDictFrom(data, i + 1)

DistinctKeys(data) ==
    \A i, j \in 1..Len(data) : i # j => data[i].key # data[j].key

Papers == [title : Titles, citations : 0..MaxInitSize]

RECURSIVE DictsOf(_)

\* the dictionaries with at least one key that lead to at most n objects:
\* every category holds at least one paper, as in _load_papers_to_dict
DictsOf(n) ==
    IF n < 1 THEN {}
    ELSE LET lists == UNION {[1..k -> Papers] : k \in 1..n}
             below == DictsOf(n - 1)
             entries ==
                 {[key |-> "papers", list |-> TRUE, val |-> l] : l \in lists}
                 \cup {[key |-> k, list |-> FALSE, val |-> d] :
                          k \in Categories \cup {"papers"}, d \in below}
         IN  {data \in UNION {[1..k -> entries] : k \in 1..2} :
                 DistinctKeys(data) /\ SizeOfDict(data) <= n}

\* what _load_papers_to_dict may return: the empty dictionary for a file
\* without rows
PaperData == {<<>>} \cup DictsOf(MaxNodes - 1)

RECURSIVE SizeOfPath(_)
RECURSIVE SizeOfPathFrom(_, _)

\* the number of objects FileSystemTree constructs for path
SizeOfPath(path) == 1 + SizeOfPathFrom(path.entries, 1)

SizeOfPathFrom(entries, i) ==
    IF i > Len(entries) THEN 0
    ELSE SizeOfPath(entries[i]) + SizeOfPathFrom(entries, i + 1)

RECURSIVE PathsOf(_)

\* the files and folders that lead to at most n objects; the names in a
\* folder are distinct
PathsOf(n) ==
    IF n < 1 THEN {}
    ELSE LET below == PathsOf(n - 1)
             files == {[name |-> f, isdir |-> FALSE, size |-> z,
                        entries |-> <<>>] :
                          f \in FileNames, z \in 0..MaxInitSize}
             lists == {es \in UNION {[1..k -> below] : k \in 0..2} :
                          \A i, j \in 1..Len(es) :
                              i # j => es[i].name # es[j].name}
             folders == {[name |-> f, isdir |-> TRUE, size |-> 0,
                          entries |-> es] : f \in FileNames, es \in lists}
         IN  files \cup {d \in folders : SizeOfPath(d) <= n}

Paths == PathsOf(MaxNodes)

\* a builder call: r is its outcome; a call that raises leaves no object
\* behind
Build(op, arg, r) ==
    /\ Running
    /\ IF r.ret = "ok"
       THEN Store(r.h) /\ used' = r.used
       ELSE UNCHANGED <<name, data_size, subtrees, parent, expanded, rect,
                        class, used>>
    /\ last' = [NoCall EXCEPT !.op = op, !.arg = arg, !.ret = r.ret,
                              !.self = IF r.ret = "ok" THEN r.val ELSE None]
    /\ UNCHANGED deleted

\* PaperTree(nm, [], all_papers=True) over a dataset that loads as data
NewPaperTree(nm, data) ==
    /\ used + SizeOfDict(data) + 1 <= MaxNodes
    /\ Build("PaperTree", data, PaperTree_all_papers(Heap, used, nm, 0, data))

\* FileSystemTree(path)
NewFileSystemTree(path) ==
    /\ used + SizeOfPath(path) <= MaxNodes
    /\ Build("FileSystemTree", path, FileSystemTree(Heap, used, path))

\* the builders and the string representation of their trees
NextB ==
    \/ Idle /\ \E nm \in Names, data \in PaperData : NewPaperTree(nm, data)
    \/ Idle /\ \E path \in Paths : NewFileSystemTree(path)
    \/ Idle /\ \E self \in Live : GetPathString(self)
    \/ Idle /\ \E self \in Live : GetSuffix(self)
    \/ Return

SpecB == Init /\ [][NextB]_vars

\* the rectangle of the specification with layout and every mutation
RectsF == {<<1, 2, 5, 3>>}

\* number of objects constructed in the specification with layout and
\* every mutation
MaxNodesF == 3

\* some object has been given a rectangle by update_rectangles
LaidOut == \E n \in Live : rect[n] # <<0, 0, 0, 0>>

\* a display session: up to MaxNodesF objects are constructed,
\* update_rectangles runs on
\* an object without parent, and from then on the mutations and further
\* calls of update_rectangles follow, one call at a time
NextF ==
    \/ Idle /\ ~LaidOut /\ used < MaxNodesF /\ ConstructNamed
    \/ Idle /\ \E self \in Roots, r \in RectsF : UpdateRectangles(self, r)
    \/ Idle /\ LaidOut
            /\ \E self \in Live, factor \in Factors : ChangeSize(self, factor)
    \/ Idle /\ LaidOut
            /\ \E self \in Live, destination \in Live : Move(self, destination)
    \/ Idle /\ LaidOut /\ \E self \in Live : DeleteSelf(self)
    \/ Idle /\ LaidOut /\ \E self \in Live : Expand(self)
    \/ Idle /\ LaidOut /\ \E self \in Live : ExpandAll(self)
    \/ Idle /\ LaidOut /\ \E self \in Live : Collapse(self)
    \/ Idle /\ LaidOut /\ \E self \in Live : CollapseAll(self)
    \/ Return

SpecF == Init /\ [][NextF]_vars

\* the rectangles of the specification with queries over a whole
\* rectangle: at the origin, wider than high and higher than wide
RectsH == {<<0, 0, 3, 1>>, <<0, 0, 1, 3>>}

\* every position of integer coordinates inside a rectangle of RectsH
PositionsH == {<<x, y>> : x \in 0..3, y \in 0..3}

\* a display of a tree: the tree is constructed bottom-up, ending with its
\* root (the object constructed last); objects are expanded;
\* update_rectangles lays the root out; then positions are looked up in
\* the root
BuildH ==
    /\ last.op \in {"none", "__init__"}
    /\ ConstructAny

ExpandH ==
    /\ last.op \in {"__init__", "expand"}
    /\ \E self \in Live : Expand(self)

LayoutH ==
    /\ last.op \in {"__init__", "expand"}
    /\ \E r \in RectsH : UpdateRectangles(used, r)

LookUpH ==
    /\ last.op \in {"update_rectangles", "get_tree_at_position"}
    /\ \E pos \in PositionsH : GetTreeAtPosition(used, pos)

NextH ==
    \/ BuildH
    \/ ExpandH
    \/ LayoutH
    \/ LookUpH

SpecH == Init /\ [][NextH]_vars

\* every method, on every object
Next ==
    \/ ConstructAny
    \/ \E self \in Live, factor \in Factors : ChangeSize(self, factor)
    \/ \E self \in Live, destination \in Live : Move(self, destination)
    \/ \E self \in Live : DeleteSelf(self)
    \/ \E self \in Live : Expand(self)
    \/ \E self \in Live : ExpandAll(self)
    \/ \E self \in Live : Collapse(self)
    \/ \E self \in Live : CollapseAll(self)
    \/ \E self \in Live, r \in Rects : UpdateRectangles(self, r)
    \/ \E self \in Live : UpdateDataSizes(self)
    \/ \E self \in Live : GetRectangles(self)
    \/ \E self \in Live, pos \in Positions : GetTreeAtPosition(self, pos)
    \/ \E self \in Live : GetPathString(self)
    \/ \E self \in Live : GetSuffix(self)
    \/ \E nm \in Names, data \in PaperData : NewPaperTree(nm, data)
    \/ \E path \in Paths : NewFileSystemTree(path)
    \/ Return

Spec == Init /\ [][Next]_vars

(***************************************************************************)
(* The shape of the trees.                                                 *)
(***************************************************************************)
RECURSIVE Desc(_)

\* self and the objects below it, top-down through _subtrees
Desc(self) ==
    {self} \cup UNION {Desc(subtrees[self][i]) : i \in 1..Len(subtrees[self])}

\* the objects reachable from a root, top-down
InTree == UNION {Desc(r) : r \in Roots}

\* the number of _parent_tree references above self (self is in a tree)
RECURSIVE Depth(_)
Depth(self) == IF parent[self] = None THEN 0 ELSE 1 + Depth(parent[self])

SubtreeSum(self) == SumOf(Heap, subtrees[self], 1)

(***************************************************************************)
(* C1  Weight-sum invariant: after any sequence of constructor,            *)
(* change_size, move and delete_self calls, every object with subtrees     *)
(* that is reachable from a root has data_size equal to the sum of the     *)
(* data_size of its subtrees (update_data_sizes is never called by the     *)
(* caller).                                                                *)
(***************************************************************************)
C1_WeightSum ==
    \A n \in InTree : subtrees[n] # <<>> => data_size[n] = SubtreeSum(n)

\* a change_size that changed a leaf two levels below its root
C1_Witness ==
    /\ last.op = "change_size" /\ last.ret = "ok"
    /\ last.self \in InTree
    /\ Depth(last.self) >= 2
    /\ data_size[last.self] # last.w0
    /\ data_size[last.self] >= 2

(***************************************************************************)
(* C2  data_size >= 0 for every object that exists, detached ones and      *)
(* the objects below them included, after every call of change_size, move  *)
(* and delete_self.                                                        *)
(***************************************************************************)
C2_NonNegative == \A n \in Live : data_size[n] >= 0

(***************************************************************************)
(* C3  The flags are prefix-closed: no object with a parent is expanded    *)
(* while its parent is not.                                                *)
(***************************************************************************)
C3_PrefixClosed ==
    \A n \in Live :
        (expanded[n] /\ parent[n] # None) => expanded[parent[n]]

(***************************************************************************)
(* C4  An object without subtrees is never expanded.                       *)
(***************************************************************************)
C4_LeafNotExpanded ==
    \A n \in Live : subtrees[n] = <<>> => ~expanded[n]

\* a move or delete_self has just taken the last subtree of an expanded
\* parent
C4_Witness ==
    /\ last.op \in {"move", "delete_self"} /\ last.ret = "ok"
    /\ last.p0 # None
    /\ last.e0
    /\ subtrees[last.p0] = <<>>
    /\ ~InSeq(last.self, subtrees[last.p0])

C6_EmptyTree ==
    \A n \in Live :
        name[n] = NoName =>
            subtrees[n] = <<>> /\ parent[n] = None /\ data_size[n] = 0

(***************************************************************************)
(* C7  The constructor called with the name None and a non-empty list of   *)
(* subtrees is rejected with an error.                                     *)
(***************************************************************************)
C7_EmptyWithSubtreesRejected ==
    (last.op = "__init__" /\ last.arg[1] = NoName /\ last.arg[2] # <<>>)
        => last.ret = "raise"

(***************************************************************************)
(* C8  The constructor gives the new object the data_size handed in when   *)
(* the list of subtrees is empty (whatever the name), and otherwise the    *)
(* sum of the recomputed data_size of the subtrees, ignoring the one       *)
(* handed in; the object has no parent and is not expanded; its subtrees   *)
(* are the ones handed in, in that order, each with the new object as its  *)
(* parent.                                                                 *)
(***************************************************************************)
RECURSIVE TreeWeight(_)
RECURSIVE TreeWeightFrom(_, _)

\* the data_size of the leaves below self, summed
TreeWeight(self) ==
    IF subtrees[self] = <<>> THEN data_size[self]
    ELSE TreeWeightFrom(subtrees[self], 1)

TreeWeightFrom(kids, i) ==
    IF i > Len(kids) THEN 0
    ELSE TreeWeight(kids[i]) + TreeWeightFrom(kids, i + 1)

RECURSIVE ExtentSum(_, _, _)

\* the sum of the e-th components of the rectangles of kids[i..]
ExtentSum(kids, e, i) ==
    IF i > Len(kids) THEN 0
    ELSE rect[kids[i]][e] + ExtentSum(kids, e, i + 1)

Tiled(n) ==
    LET kids == subtrees[n]
        a == IF rect[n][3] > rect[n][4] THEN 1 ELSE 2
        e == a + 2
    IN  /\ ExtentSum(kids, e, 1) = rect[n][e]
        /\ \A i \in 2..Len(kids) :
               rect[kids[i]][a] = rect[kids[i - 1]][a] + rect[kids[i - 1]][e]

\* the tree below self is one the claim speaks of
LayoutInput(self) ==
    \A n \in Desc(self) :
        subtrees[n] # <<>> =>
            name[n] # NoName /\ data_size[n] = SubtreeSum(n)

\* C9: the subtrees of every object of positive data_size tile it
C9_Tiling ==
    (last.op = "update_rectangles" /\ LayoutInput(last.self)) =>
        \A n \in Desc(last.self) :
            (data_size[n] > 0 /\ subtrees[n] # <<>>) => Tiled(n)

(***************************************************************************)
(* C10  change_size on a leaf of data_size w and a factor f leaves         *)
(* w + ceil(w * f) if f > 0, 1 if f <= 0 and w = 0,                        *)
(* max(1, w + floor(w * f)) if f <= 0 and w > 0; so a leaf with w >= 1     *)
(* never gets below 1, and a positive factor never decreases the           *)
(* data_size.                                                              *)
(***************************************************************************)
C10_Formula(w, f, new) ==
    /\ f[1] > 0 => new = w + Ceil(w * f[1], f[2])
    /\ (f[1] <= 0 /\ w = 0) => new = 1
    /\ (f[1] <= 0 /\ w > 0) => new = Max(1, w + Floor(w * f[1], f[2]))

\* C10: the data_size change_size leaves on a leaf
C10_ChangeSize ==
    (last.op = "change_size" /\ last.ret = "ok" /\ subtrees[last.self] = <<>>)
        => /\ C10_Formula(last.w0, last.arg, data_size[last.self])
           /\ last.w0 >= 1 => data_size[last.self] >= 1
           /\ last.arg[1] > 0 => data_size[last.self] >= last.w0

\* C10 for the leaves whose data_size is not negative
C10_ChangeSizeNonNegative ==
    (last.op = "change_size" /\ last.ret = "ok" /\ subtrees[last.self] = <<>>
     /\ last.w0 >= 0)
        => /\ C10_Formula(last.w0, last.arg, data_size[last.self])
           /\ last.w0 >= 1 => data_size[last.self] >= 1
           /\ last.arg[1] > 0 => data_size[last.self] >= last.w0

(***************************************************************************)
(* Steps.  A call is one step: the fields before it are the unprimed       *)
(* variables, the fields after it the primed ones, and last' records the   *)
(* method, the object and the argument.                                    *)
(***************************************************************************)
\* the step is a call of the method op
IsCall(op) == last'.op = op

\* no field of any object changes in the step
HeapUnchanged ==
    UNCHANGED <<name, data_size, subtrees, parent, expanded, rect, class>>

\* the list s without the element x, the others in their order
Without(s, x) == SelectSeq(s, LAMBDA y : y # x)

(***************************************************************************)
(* C11  change_size on an object that has subtrees is a no-op: for every   *)
(* factor the call returns and no field (data_size, subtrees, parent,      *)
(* rect, flag) of any object changes.                                      *)
(***************************************************************************)
C11_ChangeSizeInternal ==
    [][(IsCall("change_size") /\ subtrees[last'.self] # <<>>)
          => (last'.ret = "ok" /\ HeapUnchanged)]_vars

\* change_size with a factor that is not zero has been called on an object
\* with subtrees that delete_self has detached, whose data_size is not the
\* sum of its subtrees' any more
C11_Witness ==
    /\ last.op = "change_size"
    /\ subtrees[last.self] # <<>>
    /\ last.arg[1] # 0
    /\ last.self \in deleted

(***************************************************************************)
(* C12  move(self, destination), when self has no subtrees and has a       *)
(* parent, destination has subtrees, is not self and is not the parent of  *)
(* self: self leaves the _subtrees of the old parent, becomes the last     *)
(* subtree of destination, all other subtrees keep their order,            *)
(* self._parent_tree is destination, the data_size of self is unchanged,   *)
(* and the data_size of the old parent decreases by the data_size of self  *)
(* (to 0 when the old parent is left without subtrees).                    *)
(***************************************************************************)
\* the step is a call move(n, d) that the claim speaks of
MoveCase(n, d) ==
    /\ IsCall("move") /\ last'.self = n /\ last'.arg = d
    /\ subtrees[n] = <<>>
    /\ parent[n] # None
    /\ subtrees[d] # <<>>
    /\ d # n
    /\ d # parent[n]

\* what the call move(n, d) does to the lists and to the reference of n
MoveStructure(n, d) ==
    /\ subtrees'[parent[n]] = Without(subtrees[parent[n]], n)
    /\ subtrees'[d] = Append(subtrees[d], n)
    /\ \A m \in Nodes \ {parent[n], d} : subtrees'[m] = subtrees[m]
    /\ parent'[n] = d
    /\ \A m \in Nodes \ {n} : parent'[m] = parent[m]
    /\ data_size'[n] = data_size[n]

C13_MoveConservesRoot ==
    [][\A r \in Roots, n \in Nodes, d \in Nodes :
          (/\ IsCall("move") /\ last'.self = n /\ last'.arg = d
           /\ n \in Desc(r) /\ d \in Desc(r)
           /\ subtrees[n] = <<>> /\ subtrees[d] # <<>>)
              => (last'.ret = "ok" /\ data_size'[r] = data_size[r])]_vars

\* a leaf of positive data_size has moved, under one root of data_size 2
\* or more, away from a parent that is not the root
C13_Witness ==
    /\ last.op = "move" /\ last.ret = "ok"
    /\ last.p0 # None /\ last.p0 # last.arg
    /\ parent[last.self] = last.arg
    /\ last.w0 > 0
    /\ \E r \in Roots :
           /\ {last.self, last.p0, last.arg} \subseteq Desc(r)
           /\ last.p0 # r
           /\ data_size[r] >= 2

(***************************************************************************)
(* C14  Invalid mutations are silent no-ops: move to self, move to the     *)
(* current parent, move of an object with subtrees, move to a destination  *)
(* without subtrees, delete_self of an object without parent and collapse  *)
(* of an object without parent each return without raising and change no   *)
(* data_size, list of subtrees, parent, rect or flag of any object;        *)
(* delete_self returns False then.                                         *)
(***************************************************************************)
InvalidMove ==
    /\ IsCall("move")
    /\ \/ last'.self = last'.arg
       \/ parent[last'.self] = last'.arg
       \/ subtrees[last'.self] # <<>>
       \/ subtrees[last'.arg] = <<>>

InvalidDelete == IsCall("delete_self") /\ parent[last'.self] = None

InvalidCollapse == IsCall("collapse") /\ parent[last'.self] = None

\* C14: the six invalid mutations return and change nothing
C14_InvalidNoOp ==
    [][(InvalidMove \/ InvalidDelete \/ InvalidCollapse)
          => /\ last'.ret = "ok"
             /\ HeapUnchanged
             /\ IsCall("delete_self") => last'.val = FALSE]_vars

\* a leaf with a parent was to be moved under another leaf, while some
\* object is expanded
C14_Witness ==
    /\ last.op = "move"
    /\ last.self # last.arg
    /\ subtrees[last.self] = <<>> /\ subtrees[last.arg] = <<>>
    /\ parent[last.self] # None
    /\ parent[last.self] # last.arg
    /\ InSeq(last.self, subtrees[parent[last.self]])
    /\ \E n \in Live : expanded[n]

(***************************************************************************)
(* C15  Delete reduces weight: delete_self of an object of data_size w     *)
(* (with or without subtrees) that is in the tree of a root satisfying     *)
(* the weight-sum invariant leaves its parent p with the data_size of p    *)
(* less w, and every ancestor of p up to the root also with exactly w      *)
(* less.                                                                   *)
(***************************************************************************)
RECURSIVE Ancestors(_)

\* the objects above n along _parent_tree (n is in the tree of a root)
Ancestors(n) ==
    IF parent[n] = None THEN {}
    ELSE {parent[n]} \cup Ancestors(parent[n])

\* the weight-sum invariant in the tree below r
WeightSumBelow(r) ==
    \A m \in Desc(r) : subtrees[m] # <<>> => data_size[m] = SubtreeSum(m)

\* C15: the parent and all its ancestors lose the data_size of the object
C15_DeleteReducesWeight ==
    [][\A r \in Roots, n \in Nodes :
          (/\ IsCall("delete_self") /\ last'.self = n
           /\ n \in Desc(r) /\ n # r
           /\ WeightSumBelow(r))
              => /\ last'.ret = "ok"
                 /\ \A a \in Ancestors(n) :
                        data_size'[a] = data_size[a] - data_size[n]]_vars

\* an object of positive data_size has been deleted from a parent that
\* keeps another subtree of positive data_size and has a parent itself
C15_Witness ==
    /\ last.op = "delete_self" /\ last.ret = "ok"
    /\ last.w0 > 0
    /\ last.p0 # None
    /\ last.p0 \in InTree
    /\ parent[last.p0] # None
    /\ data_size[last.p0] > 0
    /\ ~InSeq(last.self, subtrees[last.p0])

(***************************************************************************)
(* C16  delete_self on an object that has a parent returns True; the       *)
(* object is no longer in the _subtrees of the parent, whose other         *)
(* subtrees keep their order; the data_size of the object is 0; and its    *)
(* _parent_tree still refers to the former parent.                         *)
(***************************************************************************)
\* what delete_self of n does, n having the parent p
DeleteEffect(n, p) ==
    /\ last'.ret = "ok"
    /\ last'.val = TRUE
    /\ ~InSeq(n, subtrees'[p])
    /\ subtrees'[p] = Without(subtrees[p], n)
    /\ data_size'[n] = 0
    /\ parent'[n] = p

\* C16: the effect of delete_self on every object with a parent
C16_Delete ==
    [][\A n \in Nodes :
          (IsCall("delete_self") /\ last'.self = n /\ parent[n] # None)
              => DeleteEffect(n, parent[n])]_vars

\* C16 for the objects that are in the _subtrees of their parent
C16_DeleteListed ==
    [][\A n \in Nodes :
          (/\ IsCall("delete_self") /\ last'.self = n /\ parent[n] # None
           /\ InSeq(n, subtrees[parent[n]]))
              => DeleteEffect(n, parent[n])]_vars

(***************************************************************************)
(* C17  collapse on an object with a parent collapses the whole sibling    *)
(* group: afterwards the parent, the object, every sibling and every       *)
(* object below a subtree of the parent have the flag False, and the      *)
(* flags of the objects outside the parent's subtree are unchanged.        *)
(***************************************************************************)
C17_Collapse ==
    [][\A n \in Nodes :
          (IsCall("collapse") /\ last'.self = n /\ parent[n] # None) =>
              LET group == Desc(parent[n]) \cup {n}
              IN  /\ last'.ret = "ok"
                  /\ \A m \in group : ~expanded'[m]
                  /\ \A m \in Nodes \ group :
                         expanded'[m] = expanded[m]]_vars

\* collapse has been called on one of two or more subtrees of an expanded
\* parent, while an object outside the parent's subtree is expanded
C17_Witness ==
    /\ last.op = "collapse"
    /\ last.p0 # None
    /\ last.e0
    /\ Len(subtrees[last.p0]) >= 2
    /\ InSeq(last.self, subtrees[last.p0])
    /\ \E m \in Live \ Desc(last.p0) : expanded[m]

(***************************************************************************)
(* C18  collapse_all, called on any object of a tree, leaves the flag      *)
(* False on every object of that tree, the root and everything below it,   *)
(* whatever the flags were; and expand_all on the root after collapse_all  *)
(* gives the same flags as expand_all on the root alone.                   *)
(***************************************************************************)
C18_CollapseAll ==
    [][\A r \in Roots, n \in Nodes :
          (IsCall("collapse_all") /\ last'.self = n /\ n \in Desc(r)) =>
              /\ last'.ret = "ok"
              /\ \A m \in Desc(r) : ~expanded'[m]
              /\ expand_all(Heap', r).expanded
                     = expand_all(Heap, r).expanded]_vars

\* collapse_all has been called on an object with subtrees, below an
\* expanded parent, in the tree of a root
C18_Witness ==
    /\ last.op = "collapse_all" /\ last.ret = "ok"
    /\ last.self \in InTree
    /\ subtrees[last.self] # <<>>
    /\ last.p0 # None
    /\ last.e0

C23_ZeroWeightLayout ==
    [][\A n \in Nodes :
          (IsCall("update_rectangles") /\ last'.self = n) =>
              /\ last'.ret = "ok"
              /\ \A m \in Desc(n) :
                     data_size[m] = 0 => rect'[m] = <<0, 0, 0, 0>>]_vars

\* C23 for the trees in which every object with subtrees has a name
C23_ZeroWeightLayoutNamed ==
    [][\A n \in Nodes :
          (/\ IsCall("update_rectangles") /\ last'.self = n
           /\ \A m \in Desc(n) : subtrees[m] # <<>> => name[m] # NoName) =>
              /\ last'.ret = "ok"
              /\ \A m \in Desc(n) :
                     data_size[m] = 0 => rect'[m] = <<0, 0, 0, 0>>]_vars

(***************************************************************************)
(* C26  Layout extents: below an object with data_size > 0, every subtree  *)
(* but the last gets the extent floor(total * subtree.data_size /          *)
(* data_size) along the split axis and the last one gets the total less    *)
(* the extents before it, for every rectangle, also one whose extent       *)
(* along the split axis is negative.                                       *)
(***************************************************************************)
RECURSIVE ExtentSumAfter(_, _, _)

\* the sum of the e-th components of the new rectangles of kids[1..i]
ExtentSumAfter(kids, e, i) ==
    IF i = 0 THEN 0
    ELSE rect'[kids[i]][e] + ExtentSumAfter(kids, e, i - 1)

\* the subtrees of m have the extents of the claim after the step; the
\* rounding is floor, or truncation towards zero
ExtentsAfter(m, floor) ==
    LET kids == subtrees[m]
        e == IF rect'[m][3] > rect'[m][4] THEN 3 ELSE 4
        total == rect'[m][e]
    IN  \A i \in 1..Len(kids) :
            rect'[kids[i]][e] =
                IF i < Len(kids)
                THEN IF floor
                     THEN Floor(total * data_size[kids[i]], data_size[m])
                     ELSE Trunc(total * data_size[kids[i]], data_size[m])
                ELSE total - ExtentSumAfter(kids, e, i - 1)

\* the step is update_rectangles on n, in a tree whose objects with
\* subtrees have a name and whose subtrees all have data_size > 0 (no
\* object is skipped and none falls back to (0,0,0,0))
LayoutCase(n) ==
    /\ IsCall("update_rectangles") /\ last'.self = n
    /\ \A m \in Desc(n) :
           /\ subtrees[m] # <<>> => name[m] # NoName
           /\ m # n => data_size[m] > 0

\* C26: the extents of the subtrees, rounded with floor; already for the
\* trees of LayoutCase
C26_LayoutExtents ==
    [][\A n \in Nodes :
          LayoutCase(n) =>
              \A m \in Desc(n) :
                  (data_size[m] > 0 /\ subtrees[m] # <<>>)
                      => ExtentsAfter(m, TRUE)]_vars

\* C26 for the rectangles of non-negative width and height
C26_LayoutExtentsNonNegative ==
    [][\A n \in Nodes :
          (LayoutCase(n) /\ last'.arg[3] >= 0 /\ last'.arg[4] >= 0) =>
              \A m \in Desc(n) :
                  (data_size[m] > 0 /\ subtrees[m] # <<>>)
                      => ExtentsAfter(m, TRUE)]_vars

\* C26 with truncation towards zero in the place of floor, for every
\* rectangle
C26_LayoutExtentsTruncated ==
    [][\A n \in Nodes :
          LayoutCase(n) =>
              \A m \in Desc(n) :
                  (data_size[m] > 0 /\ subtrees[m] # <<>>)
                      => ExtentsAfter(m, FALSE)]_vars

(***************************************************************************)
(* C27  Layout split axis: below an object with data_size > 0 and the      *)
(* rectangle (x, y, width, height), the subtrees are side by side along x  *)
(* (each keeps y and height and starts at x plus the widths before it)     *)
(* exactly when width > height, compared with their signs, and stacked     *)
(* along y (each keeps x and width) otherwise, also when width = height;   *)
(* the object itself gets the rectangle it was given.                      *)
(***************************************************************************)
\* the subtrees of m are placed along the split axis of its new rectangle
PlacedAfter(m) ==
    LET kids == subtrees[m]
        R == rect'[m]
    IN  \A i \in 1..Len(kids) :
            LET K == rect'[kids[i]]
            IN  IF R[3] > R[4]
                THEN /\ K[2] = R[2] /\ K[4] = R[4]
                     /\ K[1] = R[1] + ExtentSumAfter(kids, 3, i - 1)
                ELSE /\ K[1] = R[1] /\ K[3] = R[3]
                     /\ K[2] = R[2] + ExtentSumAfter(kids, 4, i - 1)

\* C27: the placement of the subtrees of every object of positive data_size
C27_SplitAxis ==
    [][\A n \in Nodes :
          (IsCall("update_rectangles") /\ last'.self = n) =>
              /\ data_size[n] > 0 => rect'[n] = last'.arg
              /\ \A m \in Desc(n) :
                     (data_size[m] > 0 /\ subtrees[m] # <<>>)
                         => PlacedAfter(m)]_vars

\* C27 for the trees whose objects with subtrees have a name and whose
\* subtrees all have data_size > 0
C27_SplitAxisPositive ==
    [][\A n \in Nodes :
          LayoutCase(n) =>
              /\ data_size[n] > 0 => rect'[n] = last'.arg
              /\ \A m \in Desc(n) :
                     (data_size[m] > 0 /\ subtrees[m] # <<>>)
                         => PlacedAfter(m)]_vars

(***************************************************************************)
(* C29  Re-layout is idempotent and depends only on the data_size of the   *)
(* objects, the order of the subtrees and the rectangle passed: a second   *)
(* update_rectangles with the same rectangle leaves the rectangle of       *)
(* every object as the first one left it, whatever rectangles were stored  *)
(* before the first call and whatever the flags are.                       *)
(***************************************************************************)
\* the heap h with the rectangles and the flags of a newly built tree
Blank(h) ==
    [h EXCEPT !.rect = [m \in Nodes |-> <<0, 0, 0, 0>>],
              !.expanded = [m \in Nodes |-> FALSE]]

\* a second call with the same rectangle, right after the step, changes no
\* rectangle
SecondCallSame(n) ==
    update_rectangles(Heap', n, last'.arg).rect = rect'

\* the rectangles the step leaves in the tree of n are the ones it leaves
\* when the rectangles and flags stored before are others
StoredIgnored(n) ==
    \A m \in Desc(n) :
        rect'[m] = update_rectangles(Blank(Heap), n, last'.arg).rect[m]

\* C29: idempotent, and independent of what was stored
C29_Relayout ==
    [][\A n \in Nodes :
          (IsCall("update_rectangles") /\ last'.self = n) =>
              (SecondCallSame(n) /\ StoredIgnored(n))]_vars

\* C29, the idempotence alone
C29_RelayoutIdempotent ==
    [][\A n \in Nodes :
          (IsCall("update_rectangles") /\ last'.self = n) =>
              SecondCallSame(n)]_vars

\* C29 for the trees in which every object with subtrees has a name
C29_RelayoutNamed ==
    [][\A n \in Nodes :
          (/\ IsCall("update_rectangles") /\ last'.self = n
           /\ \A m \in Desc(n) : subtrees[m] # <<>> => name[m] # NoName) =>
              (SecondCallSame(n) /\ StoredIgnored(n))]_vars

(***************************************************************************)
(* C30  update_data_sizes returns the data_size of an object without       *)
(* subtrees unchanged; for an object with subtrees it assigns the sum of   *)
(* the recomputed data_size of the subtrees and returns it; afterwards     *)
(* the weight-sum invariant holds at every object of the subtree,          *)
(* whatever the data_size of the objects with subtrees was before; the     *)
(* data_size of the objects without subtrees is unchanged; and a second    *)
(* call changes nothing.                                                   *)
(***************************************************************************)
RECURSIVE SumAfter(_, _)

\* the sum of the new data_size of kids[1..i]
SumAfter(kids, i) ==
    IF i = 0 THEN 0 ELSE data_size'[kids[i]] + SumAfter(kids, i - 1)

C30_UpdateDataSizes ==
    [][\A n \in Nodes :
          (IsCall("update_data_sizes") /\ last'.self = n) =>
              /\ last'.ret = "ok"
              /\ last'.val = data_size'[n]
              /\ subtrees[n] = <<>> => HeapUnchanged
              /\ \A m \in Desc(n) :
                     IF subtrees[m] = <<>>
                     THEN data_size'[m] = data_size[m]
                     ELSE data_size'[m]
                              = SumAfter(subtrees[m], Len(subtrees[m]))
              /\ update_data_sizes(Heap', n).h = Heap']_vars

\* update_data_sizes has been called on an object with subtrees whose
\* data_size was not the sum, and has changed it
C30_Witness ==
    /\ last.op = "update_data_sizes"
    /\ subtrees[last.self] # <<>>
    /\ last.w0 # data_size[last.self]
    /\ data_size[last.self] >= 1

(***************************************************************************)
(* C21.  get_tree_at_position on an object returns None when the position  *)
(* lies outside the object's rect, where inside means                      *)
(* rect.x <= px <= rect.x + rect.width and                                 *)
(* rect.y <= py <= rect.y + rect.height, both bounds inclusive; when the   *)
(* position is inside and the object has no subtrees or is not expanded,   *)
(* the call returns the object itself.  The call changes no field.         *)
(***************************************************************************)
Inside(r, p) ==
    /\ r[1] <= p[1] /\ p[1] <= r[1] + r[3]
    /\ r[2] <= p[2] /\ p[2] <= r[2] + r[4]

C21_HitTest ==
    [][\A n \in Nodes :
          (IsCall("get_tree_at_position") /\ last'.self = n) =>
              /\ last'.ret = "ok"
              /\ HeapUnchanged
              /\ ~Inside(rect[n], last'.arg) => last'.val = None
              /\ (Inside(rect[n], last'.arg)
                    /\ (subtrees[n] = <<>> \/ ~expanded[n])) => last'.val = n]_vars

\* get_tree_at_position has returned the object it was called on, an object
\* with subtrees that is not expanded, for a position on the boundary of its
\* rect
C21_Witness ==
    /\ last.op = "get_tree_at_position"
    /\ last.val = last.self
    /\ subtrees[last.self] # <<>>
    /\ ~expanded[last.self]
    /\ last.arg[1] = rect[last.self][1] + rect[last.self][3]
    /\ rect[last.self][3] > 0

\* get_tree_at_position has returned None for a position outside the rect
\* of a laid-out object
C21_WitnessOutside ==
    /\ last.op = "get_tree_at_position"
    /\ last.val = None
    /\ rect[last.self][3] > 0
    /\ ~Inside(rect[last.self], last.arg)

(***************************************************************************)
(* C28.  get_tree_at_position is first-match-wins: on an expanded object   *)
(* with subtrees whose rect contains the position, the result is the       *)
(* result of the first subtree, in list order, whose own                   *)
(* get_tree_at_position is not None, and None only when no subtree's query *)
(* succeeds; a position on the edge shared by two adjacent subtrees        *)
(* without subtrees of their own resolves to the earlier one.              *)
(***************************************************************************)
\* the result of the query on the i-th subtree of n, in the state before
HitOf(n, i, p) == get_tree_at_position(Heap, subtrees[n][i], p)

C28_FirstMatch ==
    [][\A n \in Nodes :
          (/\ IsCall("get_tree_at_position") /\ last'.self = n
           /\ Inside(rect[n], last'.arg)
           /\ subtrees[n] # <<>> /\ expanded[n]) =>
              LET p == last'.arg
                  kids == subtrees[n]
                  hits == {i \in 1..Len(kids) : HitOf(n, i, p) # None}
              IN  /\ hits = {} => last'.val = None
                  /\ hits # {} =>
                        \E i \in hits :
                            /\ \A j \in hits : i <= j
                            /\ last'.val = HitOf(n, i, p)
                  /\ \A i, j \in 1..Len(kids) :
                        (/\ i < j
                         /\ subtrees[kids[i]] = <<>>
                         /\ Inside(rect[kids[i]], p)
                         /\ Inside(rect[kids[j]], p)) =>
                            /\ last'.val # kids[j]
                            /\ last'.val \in {kids[k] : k \in 1..i}]_vars

\* get_tree_at_position on an expanded object has returned its first
\* subtree for a position on the edge that the rects of the first and the
\* second subtree share
C28_Witness ==
    /\ last.op = "get_tree_at_position"
    /\ expanded[last.self]
    /\ Len(subtrees[last.self]) >= 2
    /\ LET a == subtrees[last.self][1]
           b == subtrees[last.self][2]
       IN  /\ last.val = a
           /\ rect[a][3] > 0 /\ rect[a][4] > 0
           /\ rect[b][3] > 0 /\ rect[b][4] > 0
           /\ Inside(rect[a], last.arg)
           /\ Inside(rect[b], last.arg)

\* get_tree_at_position on an expanded object whose rect contains the
\* position has returned None: no subtree's query succeeded
C28_WitnessNone ==
    /\ last.op = "get_tree_at_position"
    /\ expanded[last.self]
    /\ subtrees[last.self] # <<>>
    /\ Inside(rect[last.self], last.arg)
    /\ last.val = None

(***************************************************************************)
(* C22.  get_rectangles on an object returns, in depth-first order         *)
(* following the order of the subtree lists, exactly one (rect, colour)    *)
(* entry for each object of the visible frontier under it (an object       *)
(* without subtrees or not expanded, all of whose ancestors up to the      *)
(* object of the call are expanded), except that objects without subtrees  *)
(* of data_size 0 and objects whose name is None contribute no entry.      *)
(***************************************************************************)
RECURSIVE Frontier(_)
RECURSIVE FrontierFrom(_, _)

\* the visible frontier under n, depth first
Frontier(n) ==
    IF subtrees[n] = <<>> \/ ~expanded[n] THEN <<n>>
    ELSE FrontierFrom(subtrees[n], 1)

FrontierFrom(kids, i) ==
    IF i > Len(kids) THEN <<>>
    ELSE Frontier(kids[i]) \o FrontierFrom(kids, i + 1)

Contributes(m) ==
    /\ ~(subtrees[m] = <<>> /\ data_size[m] = 0)
    /\ name[m] # NoName

VisibleRectangles(n) ==
    LET f == SelectSeq(Frontier(n), Contributes)
    IN  [i \in 1..Len(f) |-> <<rect[f[i]], _colour(f[i])>>]

\* the get_rectangles steps on n, all of them or those where every object
\* with subtrees under n has a name
RectanglesCase(n, named) ==
    /\ IsCall("get_rectangles") /\ last'.self = n
    /\ named => \A m \in Desc(n) : subtrees[m] # <<>> => name[m] # NoName

C22_VisibleRectangles ==
    [][\A n \in Nodes :
          RectanglesCase(n, FALSE) =>
              /\ last'.ret = "ok"
              /\ HeapUnchanged
              /\ last'.rects = VisibleRectangles(n)]_vars

\* C22 where the constructor was never handed subtrees together with the
\* name None (C7): the list is the one of the claim
C22_VisibleRectanglesNamed ==
    [][\A n \in Nodes :
          RectanglesCase(n, TRUE) =>
              /\ last'.ret = "ok"
              /\ HeapUnchanged
              /\ last'.rects = VisibleRectangles(n)]_vars

(***************************************************************************)
(* C24.  get_path_string of an object is the names of the objects on the   *)
(* path from the root down to the object, in that order, joined by the     *)
(* separator of the tree type, followed by the trailing descriptor         *)
(* (suffix) the tree type supplies.                                        *)
(***************************************************************************)
RECURSIVE PathTo(_)

\* the objects from the root down to n, along _parent_tree
PathTo(n) == IF parent[n] = None THEN <<n>> ELSE PathTo(parent[n]) \o <<n>>

\* the separator of the tree type of n
SeparatorOf(n) == IF class[n] = "PaperTree" THEN " : " ELSE os_sep

RECURSIVE JoinNames(_, _, _)

\* the names of path[1..i], with sep between two names
JoinNames(path, sep, i) ==
    IF i = 1 THEN <<name[path[1]]>>
    ELSE JoinNames(path, sep, i - 1) \o <<sep, name[path[i]]>>

NamesJoined(n) == JoinNames(PathTo(n), SeparatorOf(n), Len(PathTo(n)))

\* a get_path_string call on n has just ended; n is an object of a tree
\* type with a separator, and every object on its path has a name
PathStringCase(n) ==
    /\ last.op = "get_path_string" /\ last.self = n
    /\ class[n] \in {"PaperTree", "FileSystemTree"}
    /\ \A i \in 1..Len(PathTo(n)) : name[PathTo(n)[i]] # NoName

C24_PathString ==
    \A n \in Nodes :
        PathStringCase(n) =>
            /\ last.ret = "ok"
            /\ last.text = NamesJoined(n) \o get_suffix(Heap, n).val

\* C24 without the suffix: the string is the names joined by the
\* separator, and nothing follows the name of the object itself
C24_PathStringNames ==
    \A n \in Nodes :
        PathStringCase(n) =>
            /\ last.ret = "ok"
            /\ last.text = NamesJoined(n)
            /\ last.text[Len(last.text)] = name[n]

\* get_path_string has returned the three names of a path of three
\* objects with different names, the root first
C24_Witness ==
    /\ last.op = "get_path_string"
    /\ Len(PathTo(last.self)) = 3
    /\ LET path == PathTo(last.self)
       IN  /\ name[path[1]] # name[path[2]]
           /\ name[path[2]] # name[path[3]]
           /\ name[path[1]] # name[path[3]]
           /\ last.text = <<name[path[1]], " : ", name[path[2]], " : ",
                            name[path[3]]>>

(***************************************************************************)
(* C25.  The tree a builder returns (PaperTree over the citation dataset,  *)
(* FileSystemTree over a path) has the weight sums and the parent          *)
(* references right at every level: the data_size of each category or      *)
(* folder is the sum of the data_size of the papers or files beneath it,   *)
(* each paper is an object without subtrees whose data_size is its         *)
(* citation count (each file one whose data_size is its size), and the     *)
(* _parent_tree of every subtree is the object that lists it.              *)
(***************************************************************************)
RECURSIVE LeavesOf(_)
RECURSIVE LeavesFrom(_, _)

\* the objects without subtrees under n, depth first
LeavesOf(n) ==
    IF subtrees[n] = <<>> THEN <<n>> ELSE LeavesFrom(subtrees[n], 1)

LeavesFrom(kids, i) ==
    IF i > Len(kids) THEN <<>>
    ELSE LeavesOf(kids[i]) \o LeavesFrom(kids, i + 1)

RECURSIVE WeightOf(_, _)

\* the sum of the data_size of leaves[1..i]
WeightOf(leaves, i) ==
    IF i = 0 THEN 0 ELSE WeightOf(leaves, i - 1) + data_size[leaves[i]]

RECURSIVE PapersOf(_)
RECURSIVE PapersFrom(_, _)

\* the papers of a dataset, as [name, size], in the order of the dictionary
PapersOf(data) == PapersFrom(data, 1)

PapersFrom(data, i) ==
    IF i > Len(data) THEN <<>>
    ELSE (IF data[i].list
          THEN [k \in 1..Len(data[i].val) |->
                   [name |-> data[i].val[k].title,
                    size |-> data[i].val[k].citations]]
          ELSE PapersOf(data[i].val))
         \o PapersFrom(data, i + 1)

RECURSIVE FilesOf(_)
RECURSIVE FilesFrom(_, _)

\* the files and the folders without entries under a path, as [name, size]
FilesOf(path) ==
    IF path.entries = <<>>
    THEN << [name |-> path.name,
             size |-> IF path.isdir THEN 0 ELSE path.size] >>
    ELSE FilesFrom(path.entries, 1)

FilesFrom(entries, i) ==
    IF i > Len(entries) THEN <<>>
    ELSE FilesOf(entries[i]) \o FilesFrom(entries, i + 1)

\* the leaves the input of the builder call asks for; a dataset without
\* rows gives a root without subtrees, of data_size 0
LeavesAsked ==
    IF last.op = "FileSystemTree" THEN FilesOf(last.arg)
    ELSE IF last.arg = <<>>
    THEN << [name |-> name[last.self], size |-> 0] >>
    ELSE PapersOf(last.arg)

\* a builder has just returned the tree of root
Built(root) ==
    /\ last.op \in {"PaperTree", "FileSystemTree"}
    /\ last.ret = "ok"
    /\ last.self = root

C25_BuilderContract ==
    \A root \in Nodes :
        Built(root) =>
            /\ parent[root] = None
            /\ \A m \in Desc(root) :
                   /\ class[m] = last.op
                   /\ \A i \in 1..Len(subtrees[m]) :
                          parent[subtrees[m][i]] = m
                   /\ subtrees[m] # <<>> =>
                          data_size[m] =
                              WeightOf(LeavesOf(m), Len(LeavesOf(m)))
            /\ LET leaves == LeavesOf(root)
               IN  [i \in 1..Len(leaves) |->
                       [name |-> name[leaves[i]],
                        size |-> data_size[leaves[i]]]] = LeavesAsked

\* PaperTree has returned a tree of three levels: a category of weight 2
\* with two papers of one citation each
C25_Witness ==
    /\ last.op = "PaperTree"
    /\ last.ret = "ok"
    /\ data_size[last.self] = 2
    /\ Len(subtrees[last.self]) = 1
    /\ LET category == subtrees[last.self][1]
       IN  /\ Len(subtrees[category]) = 2
           /\ data_size[category] = 2
           /\ \A i \in 1..2 : data_size[subtrees[category][i]] = 1

\* FileSystemTree has returned a folder of weight 1 holding a folder that
\* holds a file of size 1, next to a file of size 0
C25_WitnessFiles ==
    /\ last.op = "FileSystemTree"
    /\ last.ret = "ok"
    /\ data_size[last.self] = 1
    /\ Len(subtrees[last.self]) = 2
    /\ \E i \in 1..2 :
           LET folder == subtrees[last.self][i]
           IN  /\ Len(subtrees[folder]) = 1
               /\ data_size[folder] = 1
               /\ data_size[subtrees[folder][1]] = 1

(***************************************************************************)
(* C31.  The mutations never recompute the layout: move, delete_self,      *)
(* change_size, expand, expand_all, collapse and collapse_all leave the    *)
(* rect of every object exactly as it was; a rect changes only in a call   *)
(* of update_rectangles.                                                   *)
(***************************************************************************)
Mutations ==
    {"move", "delete_self", "change_size", "expand", "expand_all",
     "collapse", "collapse_all"}

C31_RectFrame ==
    [][/\ last'.op \in Mutations => rect' = rect
       /\ rect' # rect => last'.op = "update_rectangles"]_vars

\* a move has put a laid-out object under another parent, and the object
\* still has the rectangle it had under its old parent
C31_Witness ==
    /\ last.op = "move"
    /\ last.ret = "ok"
    /\ parent[last.self] = last.arg
    /\ last.p0 # last.arg
    /\ rect[last.self] # <<0, 0, 0, 0>>

\* a delete_self has taken the data_size of a laid-out object to 0, and
\* the object still has its rectangle
C31_WitnessDelete ==
    /\ last.op = "delete_self"
    /\ last.val = TRUE
    /\ last.w0 > 0
    /\ data_size[last.self] = 0
    /\ rect[last.self] # <<0, 0, 0, 0>>

(***************************************************************************)
(* C32.  Every operation terminates: in every state reached by any         *)
(* sequence of calls the _parent_tree references form no cycle (following  *)
(* _parent_tree from any object reaches an object without parent), so the  *)
(* walk to the root of _helper_root and of collapse_all always ends.       *)
(***************************************************************************)
C32_Terminates ==
    /\ \A n \in Live : WalkUp(Heap, n, 0) # None
    /\ last.ret # "hang"

(***************************************************************************)
(* C33.  The mutation calls never raise: in every state reached from the   *)
(* constructed trees by any sequence of mutations, each mutation called on *)
(* any object returns normally, also move of an object without subtrees    *)
(* and without parent into a destination with subtrees, and move or a      *)
(* second delete_self on an object an earlier delete_self has removed.     *)
(***************************************************************************)
C33_NeverRaises == last.op \in Mutations => last.ret = "ok"

(***************************************************************************)
(* C34.  Operations on detached objects do not touch the live tree: after  *)
(* delete_self on D has returned True, a call of change_size, expand,      *)
(* collapse or collapse_all on D or on an object of D's detached subtree   *)
(* leaves data_size, _subtrees and _expanded of every object still         *)
(* reachable from a root unchanged.                                        *)
(***************************************************************************)
\* the objects delete_self has removed, with the objects below them
Detached == UNION {Desc(d) : d \in deleted}

\* the objects reachable from an object without parent
Reachable == UNION {Desc(r) : r \in Roots}

C34_DetachedFrame ==
    [][\A n \in Detached :
          (/\ last'.op \in {"change_size", "expand", "collapse",
                             "collapse_all"}
           /\ last'.self = n) =>
              \A m \in Reachable :
                  /\ data_size'[m] = data_size[m]
                  /\ subtrees'[m] = subtrees[m]
                  /\ expanded'[m] = expanded[m]]_vars

\* C34 for expand and change_size, the calls that do not follow the
\* _parent_tree of a detached object to set a field: the live tree keeps
\* its lists and flags
C34_DetachedFrameChangeSizeExpand ==
    [][\A n \in Detached :
          (last'.op \in {"change_size", "expand"} /\ last'.self = n) =>
              \A m \in Reachable \ Detached :
                  /\ subtrees'[m] = subtrees[m]
                  /\ expanded'[m] = expanded[m]]_vars

(***************************************************************************)
(* C35.  get_tree_at_position only returns displayed objects: after        *)
(* update_rectangles on a root, whenever get_tree_at_position on the root  *)
(* returns an object, that object contributes an entry (its rect and its   *)
(* colour) to get_rectangles of the root; in particular the result is      *)
(* never an object without subtrees of data_size 0.                        *)
(***************************************************************************)
\* the object v has an entry in the list get_rectangles returns for n
Displayed(n, v) ==
    LET rs == get_rectangles(Heap, n)
    IN  \E i \in 1..Len(rs) : rs[i] = <<rect[v], _colour(v)>>

\* a position was looked up in the laid-out root and an object came back
LookedUp == last.op = "get_tree_at_position" /\ last.val # None

C35_HitDisplayed ==
    LookedUp =>
        /\ Displayed(used, last.val)
        /\ ~(subtrees[last.val] = <<>> /\ data_size[last.val] = 0)

\* C35 in the trees where every object has a name and a data_size > 0
C35_HitDisplayedPositive ==
    (/\ LookedUp
     /\ \A m \in Desc(used) : name[m] # NoName /\ data_size[m] > 0) =>
        /\ Displayed(used, last.val)
        /\ ~(subtrees[last.val] = <<>> /\ data_size[last.val] = 0)

\* C35 reached in a tree of two levels: the position is found in a subtree
C35_WitnessPositive ==
    /\ LookedUp
    /\ \A m \in Desc(used) : name[m] # NoName /\ data_size[m] > 0
    /\ last.val # used

(***************************************************************************)
(* C36.  get_tree_at_position covers the whole rectangle of the root:      *)
(* after update_rectangles on a root of data_size > 0, with a rectangle of *)
(* non-negative width and height, in a tree where every object with        *)
(* subtrees has the sum of their data_size, for every position of integer  *)
(* coordinates inside the rect of the root (bounds inclusive) and every    *)
(* assignment of _expanded where an expanded object below the root has an  *)
(* expanded parent, get_tree_at_position on the root returns an object     *)
(* and not None.                                                           *)
(***************************************************************************)
\* below n, an expanded object has an expanded parent
PrefixClosed(n) ==
    \A m \in Desc(n) \ {n} : expanded[m] => expanded[parent[m]]

\* a position inside the rect of the laid-out root was looked up; every
\* rectangle of RectsH has non-negative width and height
CoverCase ==
    /\ last.op = "get_tree_at_position"
    /\ data_size[used] > 0
    /\ rect[used][3] >= 0 /\ rect[used][4] >= 0
    /\ WeightSumBelow(used)
    /\ PrefixClosed(used)
    /\ Inside(rect[used], last.arg)

C36_HitCovers == CoverCase => last.val # None

\* C36 in the trees where every object with subtrees has a name (C7) and
\* every object a data_size > 0 (C9)
C36_HitCoversPositive ==
    (/\ CoverCase
     /\ \A m \in Desc(used) :
            /\ subtrees[m] # <<>> => name[m] # NoName
            /\ data_size[m] > 0) =>
        last.val # None

\* C36 reached under an expanded root with three subtrees, at the far edge
C36_WitnessPositive ==
    /\ CoverCase
    /\ \A m \in Desc(used) :
           /\ subtrees[m] # <<>> => name[m] # NoName
           /\ data_size[m] > 0
    /\ expanded[used] /\ Len(subtrees[used]) = 3
    /\ last.arg = <<3, 1>>
    /\ last.val = subtrees[used][3]

(***************************************************************************)
(* C37.  Subtrees never leave the rectangle of their parent: after         *)
(* update_rectangles with a rectangle of non-negative width and height on  *)
(* a tree where every object with subtrees has the sum of their data_size, *)
(* every subtree of data_size > 0 has non-negative width and height and    *)
(* its rect lies within the rect of its parent (the rounding never leaves  *)
(* a negative extent for the last subtree).                                *)
(***************************************************************************)
\* the rectangle c lies within the rectangle r
Within(c, r) ==
    /\ r[1] <= c[1] /\ c[1] + c[3] <= r[1] + r[3]
    /\ r[2] <= c[2] /\ c[2] + c[4] <= r[2] + r[4]

\* the step is update_rectangles on n with a rectangle of non-negative
\* width and height, the weights below n summing up
ContainCase(n) ==
    /\ IsCall("update_rectangles") /\ last'.self = n
    /\ last'.arg[3] >= 0 /\ last'.arg[4] >= 0
    /\ WeightSumBelow(n)

\* after the step, the subtrees of data_size > 0 below n are within their
\* parents
ContainedAfter(n) ==
    \A m \in Desc(n) :
        \A i \in 1..Len(subtrees[m]) :
            LET c == subtrees[m][i]
            IN  data_size[c] > 0 =>
                    /\ rect'[c][3] >= 0 /\ rect'[c][4] >= 0
                    /\ Within(rect'[c], rect'[m])

C37_ChildrenContained ==
    [][\A n \in Nodes : ContainCase(n) => ContainedAfter(n)]_vars

\* C37 where the constructor was never handed subtrees together with the
\* name None (C7)
C37_ChildrenContainedNamed ==
    [][\A n \in Nodes :
          (/\ ContainCase(n)
           /\ \A m \in Desc(n) : subtrees[m] # <<>> => name[m] # NoName)
              => ContainedAfter(n)]_vars

(***************************************************************************)
(* C38.  Each object is listed as a subtree at most once: in every state   *)
(* reached from constructed trees by move, delete_self and change_size,    *)
(* no object occurs twice in one _subtrees list or in the _subtrees lists  *)
(* of two different objects, and every object listed in n._subtrees has    *)
(* _parent_tree n.                                                         *)
(***************************************************************************)
C38_ListedOnce ==
    \A n \in Nodes :
        /\ \A i, j \in 1..Len(subtrees[n]) :
               subtrees[n][i] = subtrees[n][j] => i = j
        /\ \A m \in Nodes \ {n} :
               \A i \in 1..Len(subtrees[n]), j \in 1..Len(subtrees[m]) :
                   subtrees[n][i] # subtrees[m][j]
        /\ \A i \in 1..Len(subtrees[n]) : parent[subtrees[n][i]] = n

\* C38 reached: move has put an object under a new parent, behind the
\* subtrees the destination had
C38_Witness ==
    /\ last.op = "move" /\ last.ret = "ok"
    /\ parent[last.self] = last.arg
    /\ Len(subtrees[last.arg]) >= 2
    /\ subtrees[last.arg][Len(subtrees[last.arg])] = last.self

\* C38 reached after delete_self: the object keeps _parent_tree and is in
\* no list
C38_WitnessDelete ==
    /\ last.op = "delete_self" /\ last.ret = "ok" /\ last.self \in deleted
    /\ parent[last.self] # None
    /\ \A n \in Nodes : \A i \in 1..Len(subtrees[n]) :
           subtrees[n][i] # last.self

(***************************************************************************)
(* C39.  An object without subtrees stays without subtrees: no call adds   *)
(* a subtree to an object whose _subtrees is empty (move does nothing for  *)
(* such a destination), so the set of the objects that have subtrees only  *)
(* shrinks, and an object that move or delete_self has emptied never       *)
(* receives subtrees again.                                                *)
(***************************************************************************)
C39_LeafStaysLeaf ==
    [][\A n \in Live : subtrees[n] = <<>> => subtrees'[n] = <<>>]_vars

\* C39 reached: move of an object without subtrees, listed under its
\* parent, into another object without subtrees has returned and changed
\* nothing
C39_Witness ==
    /\ last.op = "move" /\ last.ret = "ok"
    /\ last.self # last.arg
    /\ subtrees[last.self] = <<>> /\ subtrees[last.arg] = <<>>
    /\ last.p0 \notin {None, last.arg}
    /\ parent[last.self] = last.p0
    /\ InSeq(last.self, subtrees[last.p0])

\* C39 reached for an emptied object: move has taken the last subtree of
\* the old parent away
C39_WitnessEmptied ==
    /\ last.op = "move" /\ last.ret = "ok"
    /\ parent[last.self] = last.arg /\ last.p0 # last.arg
    /\ subtrees[last.p0] = <<>>
====
